---------------------------- MODULE Spec2Model ----------------------------
(***************************************************************************)
(* A model of mongo-realtime (src/index.js): the MongoRealtime class that  *)
(* relays MongoDB change-stream events to Socket.IO clients.               *)
(*                                                                         *)
(* The module holds one set of variables (the static fields of the class,  *)
(* the external collaborators it talks to, and the history needed to state *)
(* the properties) and several specifications over them, one per part of   *)
(* the program:                                                            *)
(*   SpecTopics  the topic handler and the listener registry               *)
(*   SpecCache   the cache handler, the snapshot fetches, the stream       *)
(*               recomputes and the snapshot replay                        *)
(*   Spec        init, the database connection, the auto-provisioning,     *)
(*               the stream registry API, the sockets and the gate         *)
(***************************************************************************)
EXTENDS Naturals, Sequences, FiniteSets

(***************************************************************************)
(* JavaScript values                                                       *)
(***************************************************************************)
\* undefined / a missing key / an omitted argument
Undefined == "<undefined>"

\* JavaScript truthiness of the string-like values the model uses:
\* undefined and the empty string are falsy, every other string is truthy.
Truthy(v) == v \notin {Undefined, ""}

RECURSIVE SeqToSet(_)
SeqToSet(s) == IF s = <<>> THEN {} ELSE {Head(s)} \cup SeqToSet(Tail(s))

NoDuplicates(s) == \A i, j \in 1..Len(s) : i # j => s[i] # s[j]

(***************************************************************************)
(* Variables                                                               *)
(***************************************************************************)
VARIABLES
  \* ---- listener registry and topic handler
  listeners,   \* #listeners: topic -> sequence of callbacks
  change,      \* the change event the topic handler ran on last
  emitted,     \* the topics that run passed to io.emit, in order
  notified,    \* the callback invocations of that run, <<topic, callback>>
  escaped,     \* whether that run ended by an exception
  \* ---- the store (external collaborator) and its change feed
  store,       \* collection -> the set of documents it holds upstream
  nextId,      \* the next _id the store hands out (ids grow, never reused)
  writes,      \* the number of writes made upstream so far
  feed,        \* change events produced upstream, not yet observed
  \* ---- the cache handler
  cache,       \* #cache: collection -> sequence of documents (keys populated)
  fetches,     \* the find().sort().toArray() calls made, with their state
  evals,       \* filter evaluations awaiting Promise.allSettled
  published,   \* topic -> the last list emitted on it (with its evaluation)
  surfaced,    \* the handler runs that ended by an exception
  requests,    \* the number of db:stream[register] requests received
  \* ---- the stream registry
  streams,        \* #streams: stream id -> [collection, filter]
  safeListStream, \* #safeListStream
  \* ---- init, the database connection and the transport
  inits,          \* the number of init calls made so far
  initPc,         \* "idle", or "connecting" while init awaits mongoose.connect
  opts,           \* the options of the last init call that passed its checks
  io,             \* this.io: "none", or the state of the Server it refers to
  gate,           \* the middleware of that Server: "absent", "open" or "auth"
  sockets,        \* the sockets connected to that Server
  connection,     \* mongoose.connection: "closed" or "open"
  openHandlers,   \* the once("open") handlers registered and not yet fired
  listing,        \* the fired open handlers awaiting listCollections()
  changeStreams,  \* the change streams whose "change" handlers are attached
  removed,        \* the ids removeListStream was called for since the last init
  last            \* what the last step was and how it ended

topicVars == <<listeners, change, emitted, notified, escaped>>
storeVars == <<store, nextId, writes, feed>>
cacheVars == <<cache, fetches, evals, published, surfaced, requests>>

registryVars == <<streams, safeListStream>>
initVars == <<inits, initPc, opts, io, gate, sockets, connection, openHandlers,
              listing, changeStreams, removed, last>>

vars == <<topicVars, storeVars, cacheVars, registryVars, initVars>>

(***************************************************************************)
(* The topic handler (EventClassifier) and the listener registry           *)
(***************************************************************************)
OperationTypes ==
  {"insert", "update", "replace", "delete",
   "invalidate", "drop", "dropDatabase", "rename"}

\* the operation types that carry a documentKey
DocumentTypes == {"insert", "update", "replace", "delete"}

\* collection names as the store reports them (ns.coll)
TopicColls == {"Users", "posts"}

\* document ids as the topic handler sees them: a string id may be empty
TopicIds == {"", "42"}

\* String.prototype.toLowerCase on the collection names of the model
ToLowerCase(s) == CASE s = "Users" -> "users" [] OTHER -> s

NoChange == [operationType |-> Undefined, coll |-> Undefined, id |-> Undefined]

ChangeEvents ==
  { [operationType |-> t, coll |-> c, id |-> i] :
      t \in DocumentTypes, c \in TopicColls, i \in TopicIds }
  \cup
  { [operationType |-> t, coll |-> c, id |-> Undefined] :
      t \in OperationTypes \ DocumentTypes, c \in TopicColls }

\* whether `if (id)` takes the branch that adds the two document topics
IdBranch(id) == Truthy(id)

\* the `events` array the handler builds
Topics(ch) ==
  LET colName == ToLowerCase(ch.coll)
      e_change == "db:change"
      e_change_type == "db:" \o ch.operationType
      e_change_col == e_change \o ":" \o colName
      e_change_type_col == e_change_type \o ":" \o colName
      events == <<e_change, e_change_type, e_change_col, e_change_type_col>>
  IN  IF IdBranch(ch.id)
      THEN events \o <<e_change_col \o ":" \o ch.id,
                       e_change_type_col \o ":" \o ch.id>>
      ELSE events

\* the callbacks a program registers; one of them throws when invoked
Callbacks == {"cbA", "cbB", "cbThrows"}
Throws(cb) == cb = "cbThrows"

\* the topics the model's listeners subscribe to
ListenTopics == {"db:change", "db:insert:users", "db:drop:posts"}

MaxListeners == 2

CallbacksOf(reg, e) == IF e \in DOMAIN reg THEN reg[e] ELSE <<>>

\* notifyListeners(e, change): the callbacks invoked, in order, up to and
\* including the first that throws
RECURSIVE Invoked(_)
Invoked(cbs) ==
  IF cbs = <<>> THEN <<>>
  ELSE IF Throws(Head(cbs)) THEN <<Head(cbs)>>
       ELSE <<Head(cbs)>> \o Invoked(Tail(cbs))

NotifyThrows(reg, e) == \E i \in 1..Len(CallbacksOf(reg, e)) : Throws(CallbacksOf(reg, e)[i])

Pairs(e, cbs) == [i \in 1..Len(cbs) |-> <<e, cbs[i]>>]

\* the emit loop: for (let e of events) { io.emit(e); notifyListeners(e) }
\* returns the topics emitted, the invocations made and whether it threw
RECURSIVE EmitLoop(_, _)
EmitLoop(reg, events) ==
  IF events = <<>>
  THEN [emitted |-> <<>>, notified |-> <<>>, escaped |-> FALSE]
  ELSE LET e == Head(events)
           inv == Pairs(e, Invoked(CallbacksOf(reg, e)))
       IN  IF NotifyThrows(reg, e)
           THEN [emitted |-> <<e>>, notified |-> inv, escaped |-> TRUE]
           ELSE LET rest == EmitLoop(reg, Tail(events))
                IN  [emitted |-> <<e>> \o rest.emitted,
                     notified |-> inv \o rest.notified,
                     escaped |-> rest.escaped]

TopicsIdle ==
  /\ listeners = << >>
  /\ change = NoChange
  /\ emitted = <<>>
  /\ notified = <<>>
  /\ escaped = FALSE

\* changeStream.on("change", ...) of the topic handler, run on one event
TopicHandler(ch) ==
  LET run == EmitLoop(listeners, Topics(ch))
  IN  /\ change' = ch
      /\ emitted' = run.emitted
      /\ notified' = run.notified
      /\ escaped' = run.escaped
      /\ UNCHANGED <<listeners, storeVars, cacheVars, registryVars, initVars>>

Registrations(reg) ==
  LET RECURSIVE Sum(_)
      Sum(S) == IF S = {} THEN 0
                ELSE LET k == CHOOSE k \in S : TRUE
                     IN  Len(reg[k]) + Sum(S \ {k})
  IN  Sum(DOMAIN reg)

\* listen(key, cb)
Listen(key, cb) ==
  /\ Registrations(listeners) < MaxListeners
  /\ listeners' = [k \in DOMAIN listeners \cup {key} |->
                     IF k = key THEN Append(CallbacksOf(listeners, key), cb)
                     ELSE listeners[k]]
  /\ UNCHANGED <<change, emitted, notified, escaped, storeVars, cacheVars, registryVars, initVars>>

\* removeAllListeners()
RemoveAllListeners ==
  /\ listeners # << >>
  /\ listeners' = << >>
  /\ UNCHANGED <<change, emitted, notified, escaped, storeVars, cacheVars, registryVars, initVars>>



(***************************************************************************)
(* The store and its change feed (external collaborators)                  *)
(***************************************************************************)
\* the collections of the cache model
CacheColls == {"a"}

MaxDocs == 2
MaxWrites == 2
MaxRequests == 1

Doc(id, v) == [id |-> id, v |-> v]
NoDoc == Doc(0, 0)

\* documentKey._id is an ObjectId or a string: the ids 1..6 of the model
\* are ObjectIds, StringId is the string that spells the ObjectId 1
StringId == 7

\* _id.toString(): the hex digits of an ObjectId, a string itself
IdToString(n) == <<"1", "2", "3", "4", "5", "6", "1">>[n]

\* find({}).sort({ _id: -1 }).toArray() on a set of documents
RECURSIVE SortDesc(_)
SortDesc(S) ==
  IF S = {} THEN <<>>
  ELSE LET m == CHOOSE d \in S : \A e \in S : e.id <= d.id
       IN  <<m>> \o SortDesc(S \ {m})

Event(t, c, id, doc) ==
  [operationType |-> t, coll |-> c, id |-> id, fullDocument |-> doc]

StoreIdle ==
  /\ store = [c \in CacheColls |-> {}]
  /\ nextId = 1
  /\ writes = 0
  /\ feed = <<>>

\* insertOne upstream: the store takes the document and the feed gets the event
UpInsert(c) ==
  /\ writes < MaxWrites
  /\ nextId <= MaxDocs
  /\ store' = [store EXCEPT ![c] = @ \cup {Doc(nextId, 0)}]
  /\ feed' = Append(feed, Event("insert", c, nextId, Doc(nextId, 0)))
  /\ nextId' = nextId + 1
  /\ writes' = writes + 1
  /\ UNCHANGED <<topicVars, cacheVars, registryVars, initVars>>

\* updateOne / replaceOne upstream (fullDocument: "updateLookup")
UpUpdate(c, d, t) ==
  /\ writes < MaxWrites
  /\ d \in store[c]
  /\ store' = [store EXCEPT ![c] = (@ \ {d}) \cup {Doc(d.id, d.v + 1)}]
  /\ feed' = Append(feed, Event(t, c, d.id, Doc(d.id, d.v + 1)))
  /\ writes' = writes + 1
  /\ UNCHANGED <<nextId, topicVars, cacheVars, registryVars, initVars>>

\* deleteOne upstream
UpDelete(c, d) ==
  /\ writes < MaxWrites
  /\ d \in store[c]
  /\ store' = [store EXCEPT ![c] = @ \ {d}]
  /\ feed' = Append(feed, Event("delete", c, d.id, NoDoc))
  /\ writes' = writes + 1
  /\ UNCHANGED <<nextId, topicVars, cacheVars, registryVars, initVars>>

\* a collection-level operation upstream: the collection is dropped
UpDrop(c) ==
  /\ writes < MaxWrites
  /\ store' = [store EXCEPT ![c] = {}]
  /\ feed' = Append(feed, Event("drop", c, 0, NoDoc))
  /\ writes' = writes + 1
  /\ UNCHANGED <<nextId, topicVars, cacheVars, registryVars, initVars>>

(***************************************************************************)
(* Stream filters                                                          *)
(***************************************************************************)
\* the filters of the model: the default filter, a plain predicate, an
\* async filter whose promise rejects on document 1 and a sync filter that
\* throws on document 1
Filters == {"always", "oddIds", "rejectsOn1", "throwsOn1"}

\* a filter whose promise never settles
HungFilter == "neverSettles"

\* filter ??= (_, __) => true
DefaultFilter == "always"

\* the outcome of value.filter(doc): a promise fulfilled with true or
\* false, a rejected promise, or an exception thrown by the call itself
FilterCall(f, doc) ==
  CASE f = "always" -> "true"
    [] f = "oddIds" -> IF doc.id % 2 = 1 THEN "true" ELSE "false"
    [] f = "rejectsOn1" -> IF doc.id = 1 THEN "rejected" ELSE "true"
    [] f = "throwsOn1" -> IF doc.id = 1 THEN "thrown" ELSE "true"
    [] f = HungFilter -> "pending"

\* this.#cache[coll].map((doc) => value.filter(doc))
MapFilter(f, docs) == [i \in 1..Len(docs) |-> FilterCall(f, docs[i])]

\* the map call throws as soon as one filter call throws
MapThrows(f, docs) == \E i \in 1..Len(docs) : FilterCall(f, docs[i]) = "thrown"

\* Promise.allSettled resolves once every promise of the array has settled
Settled(results) == \A i \in 1..Len(results) : results[i] # "pending"

\* filterResults[i] && filterResults[i].value, on the settled results
ResultValue(results, i) == i <= Len(results) /\ results[i] = "true"

\* this.#cache[coll].filter((_, i) => filterResults[i] && filterResults[i].value)
RECURSIVE FilterByResults(_, _, _)
FilterByResults(docs, results, i) ==
  IF i > Len(docs) THEN <<>>
  ELSE (IF ResultValue(results, i) THEN <<docs[i]>> ELSE <<>>)
       \o FilterByResults(docs, results, i + 1)

(***************************************************************************)
(* The cache handler, the snapshot fetches and the stream recomputes       *)
(***************************************************************************)
CacheIdle ==
  /\ cache = << >>
  /\ fetches = <<>>
  /\ evals = <<>>
  /\ published = << >>
  /\ surfaced = {}
  /\ requests = 0

\* every operation type is handled as an insert: unshift(change.fullDocument)
ApplyChangeUnshifts(docs, ev) == <<ev.fullDocument>> \o docs

\* the switch on change.operationType
ApplyChange(docs, ev) ==
  CASE ev.operationType = "insert" -> <<ev.fullDocument>> \o docs
    [] ev.operationType \in {"update", "replace"} ->
         [i \in 1..Len(docs) |->
            IF IdToString(docs[i].id) = IdToString(ev.id)
            THEN ev.fullDocument ELSE docs[i]]
    [] ev.operationType = "delete" ->
         SelectSeq(docs, LAMBDA d : IdToString(d.id) # IdToString(ev.id))
    [] OTHER -> docs

StreamTopic(key) == "db:stream:" \o key
RegisterTopic(registerId) == "db:stream[register][" \o registerId \o "]"

Eval(kind, key, coll, topic, f, docs) ==
  [kind |-> kind, key |-> key, coll |-> coll, topic |-> topic,
   docs |-> docs, results |-> MapFilter(f, docs)]

\* the keys of the registry as a sequence (Object.entries); the order of the
\* evaluations started together is not observable, each resolves on its own
RECURSIVE KeySeq(_)
KeySeq(S) ==
  IF S = {} THEN <<>>
  ELSE LET k == CHOOSE k \in S : TRUE
       IN  <<k>> \o KeySeq(S \ {k})

\* one Promise.allSettled over the filter calls of every stream of the
\* collection: no list is published before every stream's filter has settled
StartedEvalsSettleTogether(reg, coll, docs) ==
  LET bound == SelectSeq(KeySeq(DOMAIN reg), LAMBDA k : reg[k].collection = coll)
      ok == SelectSeq(bound, LAMBDA k : ~MapThrows(reg[k].filter, docs))
      hung == \E k \in SeqToSet(ok) : ~Settled(MapFilter(reg[k].filter, docs))
  IN  [i \in 1..Len(ok) |->
         [Eval("recompute", ok[i], coll, StreamTopic(ok[i]), reg[ok[i]].filter, docs)
            EXCEPT !.results = IF hung THEN @ \o <<"pending">> ELSE @]]

\* the callbacks do not return on value.collection != coll: every stream is
\* evaluated on the documents of the event's collection
StartedEvalsOfEveryStream(reg, coll, docs) ==
  LET all == KeySeq(DOMAIN reg)
  IN  [i \in 1..Len(all) |->
         Eval("recompute", all[i], coll, StreamTopic(all[i]), reg[all[i]].filter, docs)]

\* Object.entries(this.#streams).forEach(async (e) => ...) up to each
\* callback's await: the evaluations started and the callbacks that threw
StartedEvals(reg, coll, docs) ==
  LET bound == SelectSeq(KeySeq(DOMAIN reg), LAMBDA k : reg[k].collection = coll)
      ok == SelectSeq(bound, LAMBDA k : ~MapThrows(reg[k].filter, docs))
  IN  [i \in 1..Len(ok) |->
         Eval("recompute", ok[i], coll, StreamTopic(ok[i]), reg[ok[i]].filter, docs)]

ThrownEvals(reg, coll, docs) ==
  { [kind |-> "recompute", key |-> k] :
      k \in { k \in DOMAIN reg : reg[k].collection = coll
                                 /\ MapThrows(reg[k].filter, docs) } }

Recompute(coll, docs) ==
  /\ evals' = evals \o StartedEvals(streams, coll, docs)
  /\ surfaced' = surfaced \cup ThrownEvals(streams, coll, docs)

Fetch(kind, coll, key, f, registerId) ==
  [kind |-> kind, coll |-> coll, state |-> "issued", snap |-> <<>>,
   key |-> key, filter |-> f, registerId |-> registerId]

\* changeStream.on("change", ...) of the cache handler, up to its first await
CacheHandler(ev) ==
  IF ev.coll \notin DOMAIN cache
  THEN /\ fetches' = Append(fetches, Fetch("change", ev.coll, Undefined, Undefined, Undefined))
       /\ UNCHANGED <<cache, evals, published, surfaced, requests>>
  ELSE LET docs == ApplyChange(cache[ev.coll], ev)
       IN  /\ cache' = [cache EXCEPT ![ev.coll] = docs]
           /\ Recompute(ev.coll, docs)
           /\ UNCHANGED <<fetches, published, requests>>

\* the change stream hands the next event of the feed to the handler
Deliver ==
  /\ feed # <<>>
  /\ CacheHandler(Head(feed))
  /\ feed' = Tail(feed)
  /\ UNCHANGED <<store, nextId, writes, registryVars, initVars, topicVars>>

RemoveAt(s, i) == SubSeq(s, 1, i - 1) \o SubSeq(s, i + 1, Len(s))

\* the store runs the find of fetch i
FetchRead(i) ==
  /\ fetches[i].state = "issued"
  /\ fetches' = [fetches EXCEPT ![i].state = "read",
                                ![i].snap = SortDesc(store[fetches[i].coll])]
  /\ UNCHANGED <<cache, evals, published, surfaced, requests, storeVars, registryVars, initVars, topicVars>>

SetCache(coll, docs) ==
  [c \in DOMAIN cache \cup {coll} |-> IF c = coll THEN docs ELSE cache[c]]

\* the await of fetch i resumes: the cache is assigned and the handler goes on
FetchResolve(i) ==
  LET f == fetches[i]
  IN  /\ f.state = "read"
      /\ fetches' = RemoveAt(fetches, i)
      /\ cache' = SetCache(f.coll, f.snap)
      /\ IF f.kind = "change"
         THEN Recompute(f.coll, f.snap)
         ELSE IF MapThrows(f.filter, f.snap)
              THEN /\ surfaced' = surfaced \cup {[kind |-> "snapshot", key |-> f.key]}
                   /\ UNCHANGED evals
              ELSE /\ evals' = Append(evals, Eval("snapshot", f.key, f.coll,
                                      RegisterTopic(f.registerId), f.filter, f.snap))
                   /\ UNCHANGED surfaced
      /\ UNCHANGED <<published, requests, storeVars, registryVars, initVars, topicVars>>

RegisterIds == {"r1"}

\* socket.on("db:stream[register]", async (streamId, registerId) => ...) up
\* to its first await
RegisterHandler(streamId, registerId) ==
  /\ requests < MaxRequests
  /\ requests' = requests + 1
  /\ IF streamId \notin DOMAIN streams
     THEN UNCHANGED <<cache, fetches, evals, published, surfaced>>
     ELSE LET stream == streams[streamId]
              coll == stream.collection
          IN  IF coll \notin DOMAIN cache
              THEN /\ fetches' = Append(fetches, Fetch("register", coll, streamId,
                                                        stream.filter, registerId))
                   /\ UNCHANGED <<cache, evals, published, surfaced>>
              ELSE IF MapThrows(stream.filter, cache[coll])
                   THEN /\ surfaced' = surfaced \cup {[kind |-> "snapshot", key |-> streamId]}
                        /\ UNCHANGED <<cache, fetches, evals, published>>
                   ELSE /\ evals' = Append(evals, Eval("snapshot", streamId, coll,
                                           RegisterTopic(registerId), stream.filter,
                                           cache[coll]))
                        /\ UNCHANGED <<cache, fetches, published, surfaced>>

\* a db:stream[register] message of some socket reaches its handler
RegisterRequest(streamId, registerId) ==
  /\ RegisterHandler(streamId, registerId)
  /\ UNCHANGED <<storeVars, registryVars, initVars, topicVars>>

\* Promise.allSettled of evaluation i resolves: the list is taken from the
\* cache as it is now and given to this.io.emit
EmitList(i) ==
  LET ev == evals[i]
      filtered == FilterByResults(cache[ev.coll], ev.results, 1)
      pub == [list |-> filtered, docs |-> ev.docs, results |-> ev.results]
  IN  /\ Settled(ev.results)
      /\ published' = [t \in DOMAIN published \cup {ev.topic} |->
                         IF t = ev.topic THEN pub ELSE published[t]]
      /\ evals' = RemoveAt(evals, i)
      /\ UNCHANGED <<cache, fetches, surfaced, requests>>

FinishEval(i) ==
  /\ EmitList(i)
  /\ UNCHANGED <<storeVars, registryVars, initVars, topicVars>>

(***************************************************************************)
(* The stream registry API                                                 *)
(***************************************************************************)
NoError == "none"
StreamIdRequired == "Stream id is required"
CollectionRequired == "Collection is required"
AlreadyRegistered == "Stream already registered or is reserved."

NoStep == [op |-> "none"]

WithStream(reg, streamId, collection, f) ==
  [k \in DOMAIN reg \cup {streamId} |->
     IF k = streamId THEN [collection |-> collection, filter |-> f] ELSE reg[k]]

\* addListStream without the #safeListStream test: an existing entry is
\* always overwritten
AddListStreamOverwrites(reg, safe, streamId, collection, filter) ==
  IF ~Truthy(streamId) THEN [error |-> StreamIdRequired, streams |-> reg]
  ELSE IF ~Truthy(collection) THEN [error |-> CollectionRequired, streams |-> reg]
  ELSE [error |-> NoError,
        streams |-> WithStream(reg, streamId, collection,
                               IF filter = Undefined THEN DefaultFilter ELSE filter)]

\* addListStream with the entry assigned before the tests are made
AddListStreamAssignsFirst(reg, safe, streamId, collection, filter) ==
  LET f == IF filter = Undefined THEN DefaultFilter ELSE filter
      assigned == WithStream(reg, streamId, collection, f)
  IN  IF ~Truthy(streamId) THEN [error |-> StreamIdRequired, streams |-> assigned]
      ELSE IF ~Truthy(collection) THEN [error |-> CollectionRequired, streams |-> assigned]
      ELSE IF safe /\ streamId \in DOMAIN reg
           THEN [error |-> AlreadyRegistered, streams |-> assigned]
           ELSE [error |-> NoError, streams |-> assigned]

\* addListStream(streamId, collection, filter): the error thrown (or none)
\* and the registry the call leaves
AddListStreamResult(reg, safe, streamId, collection, filter) ==
  IF ~Truthy(streamId) THEN [error |-> StreamIdRequired, streams |-> reg]
  ELSE IF ~Truthy(collection) THEN [error |-> CollectionRequired, streams |-> reg]
  ELSE LET f == IF filter = Undefined THEN DefaultFilter ELSE filter
       IN  IF safe /\ streamId \in DOMAIN reg
           THEN [error |-> AlreadyRegistered, streams |-> reg]
           ELSE [error |-> NoError,
                 streams |-> WithStream(reg, streamId, collection, f)]

\* this.#streams = {}: every entry is dropped
RemoveListStreamClears(reg, streamId) == << >>

\* delete this.#streams[streamId]
RemoveListStreamResult(reg, streamId) ==
  [k \in DOMAIN reg \ {streamId} |-> reg[k]]

(***************************************************************************)
(* init, the database connection, the auto-provisioning and the transport  *)
(***************************************************************************)
\* the collections listCollections() reports, in its order
DbCollections == <<"a", "b">>

MaxInits == 2
MaxSockets == 2

\* an optional array argument: null/undefined, or the array given
NotGiven == [given |-> FALSE, list |-> <<>>]
Given(l) == [given |-> TRUE, list |-> l]

\* the values of the autoListStream option: not given, empty, one collection
AutoListStreams == {NotGiven, Given(<<>>), Given(<<"a">>)}

\* watch = [] and ignore = [] are the defaults of the two options
Options(dbUri, server, safe, auto, authentify) ==
  [dbUri |-> dbUri, server |-> server, safeListStream |-> safe,
   autoListStream |-> auto, authentify |-> authentify,
   watch |-> <<>>, ignore |-> <<>>]

\* the init calls of the model: with every option given, and with the
\* database URI or the server missing
InitOptions(autos, authentifies) ==
  { Options("mongodb://host/db", "httpServer", s, a, v) :
      s \in BOOLEAN, a \in autos, v \in authentifies }
  \cup { Options(Undefined, "httpServer", TRUE, NotGiven, FALSE),
         Options("mongodb://host/db", Undefined, TRUE, NotGiven, FALSE) }

NoOptions ==
  [dbUri |-> Undefined, server |-> Undefined, safeListStream |-> TRUE,
   autoListStream |-> NotGiven, authentify |-> FALSE,
   watch |-> <<>>, ignore |-> <<>>]

\* the open handler init registers: a closure over the options; lowered
\* tells whether watch and ignore were reassigned to their lower-cased copies
OpenClosure(o) ==
  [autoListStream |-> o.autoListStream, watch |-> o.watch, ignore |-> o.ignore,
   lowered |-> FALSE]

\* watch = watch.map((s) => s.toLowerCase()), and the same for ignore, in
\* the closure of the handler the running init call registered (the last)
Lowered(handlers) ==
  [i \in 1..Len(handlers) |->
     IF i = Len(handlers) THEN [handlers[i] EXCEPT !.lowered = TRUE]
     ELSE handlers[i]]

MapToLowerCase(list) == [i \in 1..Len(list) |-> ToLowerCase(list[i])]

\* the $match stage the handler builds from watch and ignore as they are
\* when it runs: the names ns.coll must be in, and those it must not be in
Pipeline(h) ==
  LET watch == IF h.lowered THEN MapToLowerCase(h.watch) ELSE h.watch
      ignore == IF h.lowered THEN MapToLowerCase(h.ignore) ELSE h.ignore
  IN  IF Len(watch) # 0 /\ Len(ignore) = 0
      THEN [match |-> TRUE, in |-> SeqToSet(watch), nin |-> {}]
      ELSE IF Len(watch) = 0 /\ Len(ignore) # 0
      THEN [match |-> TRUE, in |-> {}, nin |-> SeqToSet(ignore)]
      ELSE IF Len(watch) # 0 /\ Len(ignore) # 0
      THEN [match |-> TRUE, in |-> SeqToSet(watch), nin |-> SeqToSet(ignore)]
      ELSE [match |-> FALSE, in |-> {}, nin |-> {}]

\* whether the server lets an event of collection coll through the pipeline
\* (collection names compare case-sensitively)
Matches(pipeline, coll) ==
  \/ ~pipeline.match
  \/ /\ pipeline.in # {} => coll \in pipeline.in
     /\ coll \notin pipeline.nin

InitIdle ==
  /\ inits = 0
  /\ initPc = "idle"
  /\ opts = NoOptions
  /\ io = "none"
  /\ gate = "absent"
  /\ sockets = {}
  /\ connection = "closed"
  /\ openHandlers = <<>>
  /\ listing = <<>>
  /\ changeStreams = <<>>
  /\ removed = {}
  /\ last = NoStep

\* collectionsToStream: every collection when autoListStream == null, else
\* this.collections.filter((c) => autoListStream.includes(c))
CollectionsToStream(collections, autoListStream) ==
  IF ~autoListStream.given THEN collections
  ELSE SelectSeq(collections, LAMBDA c : c \in SeqToSet(autoListStream.list))

\* for (let col of collectionsToStream) this.addListStream(col, col): the
\* loop ends at the first call that throws
RECURSIVE AutoProvision(_, _, _)
AutoProvision(reg, safe, cols) ==
  IF cols = <<>> THEN [error |-> NoError, streams |-> reg]
  ELSE LET r == AddListStreamResult(reg, safe, Head(cols), Head(cols), Undefined)
       IN  IF r.error # NoError THEN r
           ELSE AutoProvision(r.streams, safe, Tail(cols))

\* whether init was given both options its two #check calls require
RequiredGiven(o) == Truthy(o.dbUri) /\ Truthy(o.server)

\* #check tests the database URI only
CheckFailsOnDbUriOnly(o) == ~Truthy(o.dbUri)

\* this.#check(() => dbUri); this.#check(() => server): whether one throws
CheckFails(o) == ~Truthy(o.dbUri) \/ ~Truthy(o.server)

\* init up to its await of mongoose.connect: the previous Server is closed,
\* the options are checked, a Server is created and the open handler is
\* registered
InitCall(o) ==
  /\ initPc = "idle"
  /\ inits < MaxInits
  /\ inits' = inits + 1
  /\ IF CheckFails(o)
     THEN /\ io' = IF io = "none" THEN "none" ELSE "closed"
          /\ sockets' = {}
          /\ last' = [op |-> "init", given |-> RequiredGiven(o),
                      error |-> "MongoRealtime failed to check"]
          /\ UNCHANGED <<initPc, opts, gate, openHandlers, removed>>
     ELSE /\ io' = "open"
          /\ sockets' = {}
          /\ gate' = "absent"
          /\ opts' = o
          /\ openHandlers' = Append(openHandlers, OpenClosure(o))
          /\ initPc' = "connecting"
          /\ removed' = {}
          /\ last' = [op |-> "init", given |-> RequiredGiven(o), error |-> NoError]
  /\ UNCHANGED <<connection, listing, changeStreams, registryVars,
                 topicVars, storeVars, cacheVars>>

\* mongoose.connect resolves: a connection that was closed opens and emits
\* "open" (every registered once-handler runs up to its await), then init
\* goes on: #safeListStream is assigned, the middleware and the connection
\* handler are installed
ConnectResolves ==
  /\ initPc = "connecting"
  /\ IF connection = "closed"
     THEN /\ connection' = "open"
          /\ listing' = listing \o Lowered(openHandlers)
          /\ openHandlers' = <<>>
     ELSE /\ openHandlers' = Lowered(openHandlers)
          /\ UNCHANGED <<connection, listing>>
  /\ safeListStream' = opts.safeListStream
  /\ gate' = IF opts.authentify THEN "auth" ELSE "open"
  /\ initPc' = "idle"
  /\ last' = [op |-> "connect", error |-> NoError]
  /\ UNCHANGED <<inits, opts, io, sockets, changeStreams, removed, streams,
                 topicVars, storeVars, cacheVars>>

\* mongoose.connect rejects: onDbError is called and init returns
ConnectRejects ==
  /\ initPc = "connecting"
  /\ connection = "closed"
  /\ initPc' = "idle"
  /\ last' = [op |-> "connect", error |-> "Failed to init"]
  /\ UNCHANGED <<inits, opts, io, gate, sockets, connection, openHandlers, listing,
                 changeStreams, removed, registryVars, topicVars, storeVars, cacheVars>>

\* an open handler resumes after listCollections(): the change stream is
\* created, the main streams are set up and, unless that threw, the two
\* "change" handlers are attached
OpenHandler ==
  /\ listing # <<>>
  /\ LET h == Head(listing)
         cols == CollectionsToStream(DbCollections, h.autoListStream)
         r == AutoProvision(streams, safeListStream, cols)
     IN  /\ streams' = r.streams
         /\ changeStreams' = IF r.error = NoError
                             THEN Append(changeStreams,
                                         [watch |-> h.watch, ignore |-> h.ignore,
                                          pipeline |-> Pipeline(h)])
                             ELSE changeStreams
         /\ last' = [op |-> "provision", autoListStream |-> h.autoListStream,
                     error |-> r.error]
  /\ listing' = Tail(listing)
  /\ UNCHANGED <<inits, initPc, opts, io, gate, sockets, connection, openHandlers,
                 removed, safeListStream, topicVars, storeVars, cacheVars>>

\* the arguments the model calls the registry API with
StreamIdArgs == {"", "a"}
CollectionArgs == {"", "a", "b"}
FilterArgs == {Undefined, "oddIds"}

\* MongoRealtime.addListStream(streamId, collection, filter)
AddListStream(streamId, collection, filter) ==
  LET r == AddListStreamResult(streams, safeListStream, streamId, collection, filter)
  IN  /\ streams' = r.streams
      /\ last' = [op |-> "addListStream", streamId |-> streamId,
                  collection |-> collection, filter |-> filter,
                  existed |-> streamId \in DOMAIN streams, error |-> r.error]
      /\ UNCHANGED <<inits, initPc, opts, io, gate, sockets, connection, openHandlers,
                     listing, changeStreams, removed, safeListStream,
                     topicVars, storeVars, cacheVars>>

\* MongoRealtime.removeListStream(streamId)
RemoveListStream(streamId) ==
  /\ streams' = RemoveListStreamResult(streams, streamId)
  /\ removed' = removed \cup {streamId}
  /\ last' = [op |-> "removeListStream", streamId |-> streamId]
  /\ UNCHANGED <<inits, initPc, opts, io, gate, sockets, connection, openHandlers,
                 listing, changeStreams, safeListStream, topicVars, storeVars, cacheVars>>

(***************************************************************************)
(* The connection gate                                                     *)
(***************************************************************************)
\* the tokens of the model, named after what authentify answers for them
Tokens == {"returnsTrue", "returnsFalse", "returnsOne", "returnsNothing", "throws"}

\* authentify(token, socket): the value it returns, or "throws"
Authentify(token) ==
  CASE token = "returnsTrue" -> "true"
    [] token = "returnsFalse" -> "false"
    [] token = "returnsOne" -> "1"
    [] token = "returnsNothing" -> Undefined
    [] OTHER -> "throws"

\* socket.handshake.auth.token || socket.handshake.headers.authorization
HandshakeToken(authToken, authorization) ==
  IF Truthy(authToken) THEN authToken ELSE authorization

\* the io.use middleware: what next() is called with, and whether the
\* verifier was called
GateOutcome(authentify, token) ==
  IF authentify
  THEN IF ~Truthy(token) THEN [outcome |-> "NO_TOKEN_PROVIDED", verified |-> FALSE]
       ELSE IF Authentify(token) = "throws"
            THEN [outcome |-> "AUTH_ERROR", verified |-> TRUE]
            ELSE IF Authentify(token) = "true"
                 THEN [outcome |-> "admitted", verified |-> TRUE]
                 ELSE [outcome |-> "UNAUTHORIZED", verified |-> TRUE]
  ELSE [outcome |-> "admitted", verified |-> FALSE]

\* a client connects to the Server: with no middleware installed yet the
\* Server admits it, else the middleware decides
Connect(authToken, authorization) ==
  /\ io = "open"
  /\ Cardinality(sockets) < MaxSockets
  /\ LET token == HandshakeToken(authToken, authorization)
         g == IF gate = "absent" THEN [outcome |-> "admitted", verified |-> FALSE]
              ELSE GateOutcome(gate = "auth", token)
     IN  /\ sockets' = IF g.outcome = "admitted"
                       THEN sockets \cup {[gate |-> gate, authentify |-> opts.authentify,
                                           received |-> FALSE]}
                       ELSE sockets
         /\ last' = [op |-> "connection", authentify |-> opts.authentify,
                     gate |-> gate, token |-> token,
                     outcome |-> g.outcome, verified |-> g.verified]
  /\ UNCHANGED <<inits, initPc, opts, io, gate, connection, openHandlers, listing,
                 changeStreams, removed, registryVars, topicVars, storeVars, cacheVars>>

\* a change event reaches every attached change stream: each topic handler
\* emits the event's topics on this.io, to every connected socket
Change ==
  /\ changeStreams # <<>>
  /\ sockets' = IF io = "open" THEN {[s EXCEPT !.received = TRUE] : s \in sockets}
                ELSE sockets
  /\ last' = [op |-> "change", emits |-> Len(changeStreams)]
  /\ UNCHANGED <<inits, initPc, opts, io, gate, connection, openHandlers, listing,
                 changeStreams, removed, registryVars, topicVars, storeVars, cacheVars>>

\* the registries the cache model starts from: one stream on collection a
CacheStreamIds == {"s1"}

CacheInit ==
  /\ TopicsIdle
  /\ StoreIdle
  /\ CacheIdle
  /\ InitIdle
  /\ safeListStream = TRUE
  /\ \E f \in Filters : streams = [k \in CacheStreamIds |-> [collection |-> "a", filter |-> f]]

CacheNext ==
  \/ \E c \in CacheColls : UpInsert(c)
  \/ \E c \in CacheColls : \E d \in store[c] : \E t \in {"update", "replace"} : UpUpdate(c, d, t)
  \/ \E c \in CacheColls : \E d \in store[c] : UpDelete(c, d)
  \/ \E c \in CacheColls : UpDrop(c)
  \/ Deliver
  \/ \E i \in 1..Len(fetches) : FetchRead(i)
  \/ \E i \in 1..Len(fetches) : FetchResolve(i)
  \/ \E k \in CacheStreamIds \cup {"nostream"}, r \in RegisterIds : RegisterRequest(k, r)
  \/ \E i \in 1..Len(evals) : FinishEval(i)

SpecCache == CacheInit /\ [][CacheNext]_vars

\* the event loop runs every continuation that is ready: a delivered event
\* is handled, an issued find is run and resumed, a settled evaluation is
\* resumed
CacheFairness ==
  /\ WF_vars(Deliver)
  /\ WF_vars(\E i \in 1..Len(fetches) : FetchRead(i))
  /\ WF_vars(\E i \in 1..Len(fetches) : FetchResolve(i))
  /\ WF_vars(\E i \in 1..Len(evals) : FinishEval(i))

SpecCacheFair == SpecCache /\ CacheFairness

\* the change event as the topic handler reads it
TopicEvent(ev) ==
  [operationType |-> ev.operationType, coll |-> ev.coll,
   id |-> IF ev.operationType \in DocumentTypes THEN IdToString(ev.id) ELSE Undefined]

\* the change stream emits "change": the cache handler and the topic handler,
\* both attached to it, run on the event one after the other
DeliverToHandlers ==
  /\ feed # <<>>
  /\ CacheHandler(Head(feed))
  /\ LET ch == TopicEvent(Head(feed))
         run == EmitLoop(listeners, Topics(ch))
     IN  /\ change' = ch
         /\ emitted' = run.emitted
         /\ notified' = run.notified
         /\ escaped' = run.escaped
  /\ feed' = Tail(feed)
  /\ UNCHANGED <<listeners, store, nextId, writes, registryVars, initVars>>

\* two streams on collection a: the filter of s1 never settles
HungInit ==
  /\ TopicsIdle
  /\ StoreIdle
  /\ CacheIdle
  /\ InitIdle
  /\ safeListStream = TRUE
  /\ \E f \in {"always", "oddIds"} :
       streams = [k \in {"s1", "s2"} |->
                    [collection |-> "a",
                     filter |-> IF k = "s1" THEN HungFilter ELSE f]]

HungNext ==
  \/ \E c \in CacheColls : UpInsert(c)
  \/ \E c \in CacheColls : \E d \in store[c] : UpDelete(c, d)
  \/ DeliverToHandlers
  \/ \E i \in 1..Len(fetches) : FetchRead(i)
  \/ \E i \in 1..Len(fetches) : FetchResolve(i)
  \/ \E i \in 1..Len(evals) : FinishEval(i)

\* the change stream hands over the head of the feed: the steps that do so
\* are the DeliverToHandlers steps, enabled whenever the feed is not empty
HandOver == feed # <<>> /\ feed' = Tail(feed)

HungFairness ==
  /\ WF_feed(HandOver)
  /\ WF_vars(\E i \in 1..Len(fetches) : FetchRead(i))
  /\ WF_vars(\E i \in 1..Len(fetches) : FetchResolve(i))
  /\ WF_vars(\E i \in 1..Len(evals) : FinishEval(i))

SpecHung == HungInit /\ [][HungNext]_vars /\ HungFairness

Init ==
  /\ TopicsIdle
  /\ StoreIdle
  /\ CacheIdle
  /\ InitIdle
  /\ safeListStream = TRUE
  /\ streams = << >>

\* init, the auto-provisioning and the registry API
Next ==
  \/ \E o \in InitOptions(AutoListStreams, {FALSE}) : InitCall(o)
  \/ ConnectResolves
  \/ ConnectRejects
  \/ OpenHandler
  \/ \E id \in StreamIdArgs, c \in CollectionArgs, f \in FilterArgs : AddListStream(id, c, f)
  \/ \E id \in StreamIdArgs : RemoveListStream(id)

Spec == Init /\ [][Next]_vars

\* init, the sockets, the gate and the change events
GateNext ==
  \/ \E o \in InitOptions({NotGiven, Given(<<>>)}, BOOLEAN) : InitCall(o)
  \/ ConnectResolves
  \/ ConnectRejects
  \/ OpenHandler
  \/ \E t \in {Undefined, ""} \cup Tokens, a \in {Undefined, "returnsTrue"} : Connect(t, a)
  \/ Change

SpecGate == Init /\ [][GateNext]_vars

\* a change happens upstream once the connection is open and every open
\* handler has ended: each topic handler that was attached emits db:change
UpstreamChange ==
  /\ connection = "open"
  /\ listing = <<>>
  /\ sockets' = IF io = "open" /\ changeStreams # <<>>
                THEN {[s EXCEPT !.received = TRUE] : s \in sockets}
                ELSE sockets
  /\ last' = [op |-> "change", emits |-> Len(changeStreams)]
  /\ UNCHANGED <<inits, initPc, opts, io, gate, connection, openHandlers, listing,
                 changeStreams, removed, registryVars, topicVars, storeVars, cacheVars>>

\* init, the registry API and the changes of the database once it is open
OpenNext ==
  \/ \E o \in InitOptions({NotGiven}, {FALSE}) : InitCall(o)
  \/ ConnectResolves
  \/ ConnectRejects
  \/ OpenHandler
  \/ \E id \in StreamIdArgs, c \in CollectionArgs, f \in FilterArgs : AddListStream(id, c, f)
  \/ UpstreamChange

SpecOpen == Init /\ [][OpenNext]_vars

\* the collections of the watched database and the lists init is given
WatchColls == {"Users", "a", "b"}
WatchLists == {<<>>, <<"a", "b">>, <<"b">>, <<"Users">>}

WatchOptions ==
  { [Options("mongodb://host/db", "httpServer", TRUE, Given(<<>>), FALSE)
       EXCEPT !.watch = w, !.ignore = i] : w \in WatchLists, i \in WatchLists }

\* a change of collection coll happens upstream: the server runs it through
\* the pipeline of every change stream and the handlers of those it passes
\* emit its topics
WatchedChange(coll) ==
  /\ changeStreams # <<>>
  /\ LET passed == [i \in 1..Len(changeStreams) |->
                      Matches(changeStreams[i].pipeline, coll)]
     IN  /\ sockets' = IF io = "open" /\ \E i \in 1..Len(passed) : passed[i]
                       THEN {[x EXCEPT !.received = TRUE] : x \in sockets}
                       ELSE sockets
         /\ last' = [op |-> "event", coll |-> coll, passed |-> passed]
  /\ UNCHANGED <<inits, initPc, opts, io, gate, connection, openHandlers, listing,
                 changeStreams, removed, registryVars, topicVars, storeVars, cacheVars>>

\* init with watch and ignore lists, and the changes of the collections
WatchNext ==
  \/ \E o \in WatchOptions : InitCall(o)
  \/ ConnectResolves
  \/ ConnectRejects
  \/ OpenHandler
  \/ \E c \in WatchColls : WatchedChange(c)

SpecWatch == Init /\ [][WatchNext]_vars

TopicsInit ==
  /\ TopicsIdle
  /\ StoreIdle
  /\ CacheIdle
  /\ InitIdle
  /\ safeListStream = TRUE
  /\ streams = << >>

TopicsNext ==
  \/ \E ch \in ChangeEvents : TopicHandler(ch)
  \/ \E key \in ListenTopics, cb \in Callbacks : Listen(key, cb)
  \/ RemoveAllListeners

SpecTopics == TopicsInit /\ [][TopicsNext]_vars

\* the variables of init other than the record of the last step
initState ==
  <<inits, initPc, opts, io, gate, sockets, connection, openHandlers, listing,
    changeStreams, removed>>

\* listen(key, cb) called by the program
ListenCall(key, cb) ==
  /\ Registrations(listeners) < MaxListeners
  /\ listeners' = [k \in DOMAIN listeners \cup {key} |->
                     IF k = key THEN Append(CallbacksOf(listeners, key), cb)
                     ELSE listeners[k]]
  /\ last' = [op |-> "listen", key |-> key, cb |-> cb]
  /\ UNCHANGED <<change, emitted, notified, escaped, initState,
                 storeVars, cacheVars, registryVars>>

\* notifyListeners(e, change) called by the program
NotifyListeners(e) ==
  /\ notified' = Pairs(e, Invoked(CallbacksOf(listeners, e)))
  /\ escaped' = NotifyThrows(listeners, e)
  /\ last' = [op |-> "notifyListeners", e |-> e,
              registered |-> CallbacksOf(listeners, e)]
  /\ UNCHANGED <<listeners, change, emitted, initState,
                 storeVars, cacheVars, registryVars>>

TypeError == "TypeError: Cannot read properties of undefined (reading 'filter')"

\* removeListener(key, cb): the error thrown (or none) and the registry left
RemoveListenerResult(reg, key, cb) ==
  IF Truthy(cb)
  THEN IF key \notin DOMAIN reg
       THEN [error |-> TypeError, listeners |-> reg]
       ELSE [error |-> NoError,
             listeners |-> [reg EXCEPT ![key] = SelectSeq(@, LAMBDA c : c # cb)]]
  ELSE [error |-> NoError,
        listeners |-> [k \in DOMAIN reg \cup {key} |->
                         IF k = key THEN <<>> ELSE reg[k]]]

\* removeListener(key, cb) called by the program; cb may be omitted
RemoveListener(key, cb) ==
  LET r == RemoveListenerResult(listeners, key, cb)
  IN  /\ listeners' = r.listeners
      /\ last' = [op |-> "removeListener", key |-> key, cb |-> cb,
                  error |-> r.error,
                  had |-> CallbacksOf(listeners, key),
                  has |-> CallbacksOf(r.listeners, key),
                  othersKept |->
                    \A k \in (DOMAIN listeners \cup DOMAIN r.listeners) \ {key} :
                      CallbacksOf(r.listeners, k) = CallbacksOf(listeners, k)]
      /\ UNCHANGED <<change, emitted, notified, escaped, initState,
                     storeVars, cacheVars, registryVars>>

\* the topics the program listens to, and those it notifies and removes
\* listeners of: the same and one it never listens to
ListenedTopics == {"db:change", "db:insert:users"}
NotifyTopics == ListenedTopics \cup {"db:delete"}

ListenersNext ==
  \/ \E key \in ListenedTopics, cb \in Callbacks : ListenCall(key, cb)
  \/ \E e \in NotifyTopics : NotifyListeners(e)
  \/ \E key \in NotifyTopics, cb \in Callbacks \cup {Undefined} : RemoveListener(key, cb)

SpecListeners == TopicsInit /\ [][ListenersNext]_vars

\* the ids of the documents a cache holds and an event names
ApplyIds == {1, 2, 3, StringId}
MaxCacheLen == 3

\* the sequences of at most n documents of the ids S, no id twice
RECURSIVE DocSeqs(_, _)
DocSeqs(S, n) ==
  IF n = 0 \/ S = {} THEN {<<>>}
  ELSE {<<>>} \cup { <<Doc(id, 0)>> \o t : id \in S, t \in DocSeqs(S, n - 1) }

PopulatedCaches ==
  { c \in DocSeqs(ApplyIds, MaxCacheLen) :
      \A i, j \in 1..Len(c) : c[i].id = c[j].id => i = j }

\* the change events of a collection: those of a document carry its id and,
\* but for delete, its new full document
ApplyEvents ==
  { Event(t, "a", id, IF t = "delete" THEN NoDoc ELSE Doc(id, 1)) :
      t \in DocumentTypes, id \in ApplyIds }
  \cup { Event(t, "a", 0, NoDoc) : t \in OperationTypes \ DocumentTypes }

\* a populated cache of collection a
ApplyInit ==
  /\ TopicsIdle
  /\ StoreIdle
  /\ InitIdle
  /\ safeListStream = TRUE
  /\ streams = << >>
  /\ fetches = <<>>
  /\ evals = <<>>
  /\ published = << >>
  /\ surfaced = {}
  /\ requests = 0
  /\ \E c \in PopulatedCaches : cache = [k \in {"a"} |-> c]

\* the cache handler runs on one event of the populated collection (no
\* stream is registered, so nothing is recomputed)
Apply(ev) ==
  /\ last = NoStep
  /\ ev.coll \in DOMAIN cache
  /\ CacheHandler(ev)
  /\ last' = [op |-> "apply", ev |-> ev, before |-> cache[ev.coll]]
  /\ UNCHANGED <<feed, store, nextId, writes, initState, registryVars, topicVars>>

\* the cache handler runs once more on the event it has just applied
Replay ==
  /\ last.op = "apply"
  /\ CacheHandler(last.ev)
  /\ last' = [op |-> "replay", ev |-> last.ev, first |-> last.before,
              before |-> cache[last.ev.coll]]
  /\ UNCHANGED <<feed, store, nextId, writes, initState, registryVars, topicVars>>

ApplyNext ==
  \/ \E ev \in ApplyEvents : Apply(ev)
  \/ Replay

SpecApply == ApplyInit /\ [][ApplyNext]_vars

\* the connected sockets of the Server: what each has sent as correlation
\* id and the topics it was sent a payload on
Conns == {"c1", "c2"}

SnapshotInit ==
  /\ TopicsIdle
  /\ StoreIdle
  /\ CacheIdle
  /\ inits = 1
  /\ initPc = "idle"
  /\ opts = Options("mongodb://host/db", "httpServer", TRUE, Given(<<>>), FALSE)
  /\ io = "open"
  /\ gate = "open"
  /\ connection = "open"
  /\ openHandlers = <<>>
  /\ listing = <<>>
  /\ changeStreams = <<[watch |-> <<>>, ignore |-> <<>>, pipeline |-> Pipeline(OpenClosure(opts))]>>
  /\ removed = {}
  /\ last = NoStep
  /\ sockets = {[id |-> c, sent |-> {}, inbox |-> {}] : c \in Conns}
  /\ safeListStream = TRUE
  /\ streams = [k \in CacheStreamIds |-> [collection |-> "a", filter |-> "always"]]

\* socket c sends db:stream[register](streamId, registerId)
SocketRegister(c, streamId, registerId) ==
  /\ RegisterHandler(streamId, registerId)
  /\ sockets' = {IF s.id = c THEN [s EXCEPT !.sent = @ \cup {registerId}] ELSE s :
                   s \in sockets}
  /\ UNCHANGED <<inits, initPc, opts, io, gate, connection, openHandlers, listing,
                 changeStreams, removed, last, storeVars, registryVars, topicVars>>

\* this.io.emit(topic, filtered): the Server sends to every connected socket
SocketEmit(i) ==
  /\ EmitList(i)
  /\ sockets' = {[s EXCEPT !.inbox = @ \cup {evals[i].topic}] : s \in sockets}
  /\ UNCHANGED <<inits, initPc, opts, io, gate, connection, openHandlers, listing,
                 changeStreams, removed, last, storeVars, registryVars, topicVars>>

SnapshotNext ==
  \/ \E c \in CacheColls : UpInsert(c)
  \/ Deliver
  \/ \E i \in 1..Len(fetches) : FetchRead(i)
  \/ \E i \in 1..Len(fetches) : FetchResolve(i)
  \/ \E c \in Conns, k \in CacheStreamIds \cup {"nostream"}, r \in RegisterIds :
       SocketRegister(c, k, r)
  \/ \E i \in 1..Len(evals) : SocketEmit(i)

SpecSnapshot == SnapshotInit /\ [][SnapshotNext]_vars

\* two cached collections, each with one stream: the filter of sb may never
\* settle
TwoColls == {"a", "b"}

CollsInit ==
  /\ TopicsIdle
  /\ store = [c \in TwoColls |-> {}]
  /\ nextId = 1
  /\ writes = 0
  /\ feed = <<>>
  /\ CacheIdle
  /\ InitIdle
  /\ safeListStream = TRUE
  /\ \E f \in {HungFilter, "oddIds"} :
       streams = [k \in {"sa", "sb"} |->
                    IF k = "sa" THEN [collection |-> "a", filter |-> "always"]
                    ELSE [collection |-> "b", filter |-> f]]

CollsNext ==
  \/ \E c \in TwoColls : UpInsert(c)
  \/ Deliver
  \/ \E i \in 1..Len(fetches) : FetchRead(i)
  \/ \E i \in 1..Len(fetches) : FetchResolve(i)
  \/ \E i \in 1..Len(evals) : FinishEval(i)

CollsFairness ==
  /\ WF_feed(HandOver)
  /\ WF_vars(\E i \in 1..Len(fetches) : FetchRead(i))
  /\ WF_vars(\E i \in 1..Len(fetches) : FetchResolve(i))
  /\ WF_vars(\E i \in 1..Len(evals) : FinishEval(i))

SpecColls == CollsInit /\ [][CollsNext]_vars /\ CollsFairness

\* the registry API called while the cache handler works: stream s1 exists,
\* #safeListStream has either value an init call can have left
StreamsInit ==
  /\ TopicsIdle
  /\ StoreIdle
  /\ CacheIdle
  /\ InitIdle
  /\ safeListStream \in BOOLEAN
  /\ streams = [k \in {"s1"} |-> [collection |-> "a", filter |-> "always"]]

\* writes the upstream store takes while the registry API is exercised
MaxStreamWrites == 1

StreamsInsert(c) == writes < MaxStreamWrites /\ UpInsert(c)

StreamsNext ==
  \/ \E c \in CacheColls : StreamsInsert(c)
  \/ Deliver
  \/ \E i \in 1..Len(fetches) : FetchRead(i)
  \/ \E i \in 1..Len(fetches) : FetchResolve(i)
  \/ \E i \in 1..Len(evals) : FinishEval(i)
  \/ \E f \in {Undefined, "rejectsOn1"} : AddListStream("s2", "a", f)
  \/ \E id \in {"s1", "s2"} : RemoveListStream(id)

SpecStreams == StreamsInit /\ [][StreamsNext]_vars

-----------------------------------------------------------------------------
(***************************************************************************)
(* C2: for every change event of type T on collection C, the topics        *)
(* emitted and notified are exactly db:change, db:T, db:change:c, db:T:c   *)
(* when the event has no document id, and those four plus db:change:c:I    *)
(* and db:T:c:I when it has id I (c the lower-cased C); no topic is        *)
(* emitted twice and the classification never fails.                       *)
(***************************************************************************)
ExpectedTopics(ch) ==
  LET c == ToLowerCase(ch.coll)
      four == {"db:change", "db:" \o ch.operationType,
               "db:change:" \o c, "db:" \o ch.operationType \o ":" \o c}
  IN  IF ch.id = Undefined THEN four
      ELSE four \cup {"db:change:" \o c \o ":" \o ch.id,
                      "db:" \o ch.operationType \o ":" \o c \o ":" \o ch.id}

C2_ExactTopicSet ==
  change # NoChange =>
    /\ SeqToSet(emitted) = ExpectedTopics(change)
    /\ NoDuplicates(emitted)
    /\ ~escaped


(***************************************************************************)
(* C1: convergence.  Once the change handler has processed every event of  *)
(* the feed (and every snapshot fetch it or a snapshot request started has *)
(* resolved), the cache of a collection equals what a fresh                *)
(* find().sort({_id: -1}) on the store returns, whichever way the cache    *)
(* was first populated and however the fetches interleave with the events. *)
(***************************************************************************)
Quiescent == feed = <<>> /\ fetches = <<>>

C1_Convergence ==
  Quiescent => \A c \in DOMAIN cache : cache[c] = SortDesc(store[c])

(***************************************************************************)
(* C5: a filter evaluation that fails for one document (a rejected promise *)
(* or an exception thrown by the call) counts as false for that document   *)
(* only: no recompute or snapshot ends by an exception, and the list       *)
(* emitted holds every document the filter evaluated to true for.          *)
(***************************************************************************)
C5_FilterFailureIsFalse ==
  /\ surfaced = {}
  /\ \A t \in DOMAIN published :
       \A i \in 1..Len(published[t].docs) :
         published[t].results[i] = "true"
           => published[t].docs[i] \in SeqToSet(published[t].list)


(***************************************************************************)
(* C3: addListStream called with an id that is already registered: with    *)
(* safe mode disabled the call succeeds and the entry of the id holds the  *)
(* collection and the filter of this call; with safe mode enabled the call *)
(* fails and the registry, so the filter every later recompute and         *)
(* snapshot reads for the id, stays that of the first call.                *)
(***************************************************************************)
RequestedFilter(f) == IF f = Undefined THEN "always" ELSE f

C3_DuplicateAdd ==
  [][ (last'.op = "addListStream" /\ last'.existed
         /\ last'.streamId # "" /\ last'.collection # "")
      => IF safeListStream
         THEN last'.error = AlreadyRegistered /\ streams' = streams
         ELSE /\ last'.error = NoError
              /\ streams'[last'.streamId] =
                   [collection |-> last'.collection,
                    filter |-> RequestedFilter(last'.filter)]
              /\ \A k \in DOMAIN streams \ {last'.streamId} :
                   k \in DOMAIN streams' /\ streams'[k] = streams[k] ]_vars

\* a second add of an id, with another filter, has failed under safe mode
C3_Witness ==
  /\ last.op = "addListStream"
  /\ last.existed
  /\ safeListStream
  /\ last.error = AlreadyRegistered
  /\ last.filter = "oddIds"
  /\ streams[last.streamId].filter = "always"

\* a second add of an id has replaced the entry with safe mode disabled
C3_WitnessReplaced ==
  /\ last.op = "addListStream"
  /\ last.existed
  /\ ~safeListStream
  /\ last.error = NoError
  /\ last.collection = "b"
  /\ streams[last.streamId] = [collection |-> "b", filter |-> "oddIds"]

(***************************************************************************)
(* C4: every addListStream call that fails leaves the registry as it was:  *)
(* a duplicate id under safe mode fails, and an empty id or an empty       *)
(* collection fails whatever the safe mode and whether or not the id is    *)
(* registered.                                                             *)
(***************************************************************************)
C4_FailingAddLeavesRegistry ==
  [][ last'.op = "addListStream"
      => /\ last'.error # NoError => streams' = streams
         /\ (last'.streamId = "" \/ last'.collection = "")
              => last'.error \in {StreamIdRequired, CollectionRequired}
         /\ (safeListStream /\ last'.existed
               /\ last'.streamId # "" /\ last'.collection # "")
              => last'.error = AlreadyRegistered ]_vars

\* an add with an empty collection has failed for a registered id with safe
\* mode disabled
C4_Witness ==
  /\ last.op = "addListStream"
  /\ last.existed
  /\ ~safeListStream
  /\ last.collection = ""
  /\ last.error = CollectionRequired

(***************************************************************************)
(* C6: the auto-provisioning run at startup leaves one unfiltered stream,  *)
(* with id the collection name, for every discovered collection when       *)
(* autoListStream is not given, for none when it is the empty list and for *)
(* exactly the discovered collections it names otherwise; no other stream  *)
(* is registered or changed by it.                                         *)
(***************************************************************************)
AutoProvisioned(autoListStream) ==
  IF ~autoListStream.given THEN SeqToSet(DbCollections)
  ELSE SeqToSet(DbCollections) \cap SeqToSet(autoListStream.list)

C6_AutoProvisioning ==
  [][ last'.op = "provision"
      => /\ \A c \in AutoProvisioned(last'.autoListStream) :
              /\ c \in DOMAIN streams'
              /\ streams'[c] = [collection |-> c, filter |-> "always"]
         /\ \A k \in (DOMAIN streams \cup DOMAIN streams')
                       \ AutoProvisioned(last'.autoListStream) :
              /\ k \in DOMAIN streams /\ k \in DOMAIN streams'
              /\ streams'[k] = streams[k] ]_vars

(***************************************************************************)
(* C7: under safe mode, once init has been called, an addListStream whose  *)
(* id is the name of a collection init auto-provisions fails, unless       *)
(* removeListStream was called for that id first; this holds wherever the  *)
(* call falls relative to the auto-provisioning step init started.         *)
(***************************************************************************)
C7_AutoStreamsAreReserved ==
  (/\ last.op = "addListStream"
   /\ last.streamId # "" /\ last.collection # ""
   /\ safeListStream
   /\ initPc = "connecting" \/ connection = "open"
   /\ last.streamId \in AutoProvisioned(opts.autoListStream)
   /\ last.streamId \notin removed)
  => last.error = AlreadyRegistered

(***************************************************************************)
(* C8: the admission outcome of a connection: admitted when no authentify  *)
(* function is configured; else rejected with NO_TOKEN_PROVIDED, without   *)
(* calling the verifier, when it carries no token; admitted when the       *)
(* verifier answers exactly true; AUTH_ERROR when the verifier throws or   *)
(* rejects; UNAUTHORIZED for any other answer.                             *)
(***************************************************************************)
ExpectedOutcome(authentify, token) ==
  IF ~authentify THEN "admitted"
  ELSE IF token \in {Undefined, ""} THEN "NO_TOKEN_PROVIDED"
  ELSE CASE token = "returnsTrue" -> "admitted"
         [] token = "throws" -> "AUTH_ERROR"
         [] OTHER -> "UNAUTHORIZED"

C8_AdmissionOutcome ==
  last.op = "connection"
  => /\ last.outcome = ExpectedOutcome(last.authentify, last.token)
     /\ (last.authentify /\ last.token \in {Undefined, ""}) => ~last.verified

(***************************************************************************)
(* C9: when authentify is configured, every connection that has received a *)
(* db:* payload was admitted by the gate before.                           *)
(***************************************************************************)
C9_GateBeforeDelivery ==
  \A s \in sockets : (s.authentify /\ s.received) => s.gate = "auth"

(***************************************************************************)
(* C10: a second init closes the previous transport and its connections    *)
(* before it creates the new one, and afterwards every change event is     *)
(* emitted at most once on each of its topics.                             *)
(***************************************************************************)
C10_ReinitNoDuplicates ==
  /\ (last.op = "init" /\ last.error = NoError) => (sockets = {} /\ gate = "absent")
  /\ last.op = "change" => last.emits <= 1


(***************************************************************************)
(* C11: an init call without a database URI or without a server fails with *)
(* an error, and nothing starts: no Server is created (this.io refers to   *)
(* no open Server afterwards), no open handler is registered, no change    *)
(* stream or change handler is added and init does not go on to connect.   *)
(***************************************************************************)
C11_InvalidInitStartsNothing ==
  [][ (last'.op = "init" /\ ~last'.given)
      => /\ last'.error # NoError
         /\ io' # "open"
         /\ sockets' = {}
         /\ initPc' = "idle"
         /\ openHandlers' = openHandlers
         /\ listing' = listing
         /\ changeStreams' = changeStreams
         /\ gate' = gate ]_vars

\* a first init call has failed its checks
C11_Witness ==
  /\ last.op = "init"
  /\ ~last.given
  /\ last.error # NoError
  /\ io = "none"
  /\ inits = 1


(***************************************************************************)
(* C12: every list published on db:stream:{id} is the documents of the     *)
(* collection's cache, as it was when the filter was evaluated, for which  *)
(* the filter evaluated to true, in cache order: it holds no document the  *)
(* filter is false for and omits none it is true for, also when a change   *)
(* event mutates the cache while the evaluations are pending.              *)
(***************************************************************************)
C12_PublishedListIsFilteredCache ==
  \A k \in DOMAIN streams :
    StreamTopic(k) \in DOMAIN published
    => LET p == published[StreamTopic(k)]
       IN  /\ \A j \in 1..Len(p.list) :
                FilterCall(streams[k].filter, p.list[j]) = "true"
           /\ p.list = FilterByResults(p.docs, p.results, 1)


(***************************************************************************)
(* C13: snapshot replay.  A db:stream[register] request for a registered   *)
(* stream is eventually answered on db:stream[register][registerId] with   *)
(* the documents of the cache the filter is true for, in cache order (the  *)
(* cache being fetched first when it is not populated); a failing filter   *)
(* evaluation counts as false and does not prevent the answer.             *)
(***************************************************************************)
SnapshotRequested ==
  \/ \E i \in 1..Len(fetches) : fetches[i].kind = "register"
  \/ \E i \in 1..Len(evals) : evals[i].kind = "snapshot"
  \/ \E x \in surfaced : x.kind = "snapshot"

SnapshotAnswered ==
  \E r \in RegisterIds :
    /\ RegisterTopic(r) \in DOMAIN published
    /\ published[RegisterTopic(r)].list =
         FilterByResults(published[RegisterTopic(r)].docs,
                         published[RegisterTopic(r)].results, 1)

C13_SnapshotReplay == SnapshotRequested ~> SnapshotAnswered


(***************************************************************************)
(* C14: lazy population issues no duplicate fetch: for every collection at *)
(* most one find() of the whole collection is outstanding at any time,     *)
(* whether the needs come from change events or from snapshot requests.    *)
(***************************************************************************)
OutstandingFetches(c) == { i \in 1..Len(fetches) : fetches[i].coll = c }

C14_SingleFetchInFlight ==
  \A c \in CacheColls : Cardinality(OutstandingFetches(c)) <= 1

(***************************************************************************)
(* C15: the cache handler takes the events of one collection strictly in   *)
(* order: it does not begin with an event of a collection while an earlier *)
(* event of that collection is still waiting for the snapshot fetch it     *)
(* started.                                                                *)
(***************************************************************************)
ChangeFetchPending(c) ==
  \E i \in 1..Len(fetches) : fetches[i].kind = "change" /\ fetches[i].coll = c

C15_MutationsInOrder ==
  [][ (feed # <<>> /\ feed' = Tail(feed))
      => ~ChangeFetchPending(Head(feed).coll) ]_vars


(***************************************************************************)
(* C16: a filter that never settles delays only the list of its own        *)
(* stream.  While an evaluation of s1 is pending for ever, every change    *)
(* event is still handled: its topics are emitted, the populated cache is  *)
(* mutated and an evaluation of the other stream s2 is started; every      *)
(* event of the feed is eventually handled and every evaluation of s2      *)
(* eventually publishes its list.                                          *)
(***************************************************************************)
HungPending ==
  \E i \in 1..Len(evals) : evals[i].key = "s1" /\ ~Settled(evals[i].results)

OtherPending == \E i \in 1..Len(evals) : evals[i].key = "s2"

C16_HungFilterDelaysOnlyItsStream ==
  /\ [][ (HungPending /\ feed # <<>> /\ feed' = Tail(feed))
         => /\ emitted' = Topics(TopicEvent(Head(feed)))
            /\ Head(feed).coll \in DOMAIN cache
                 => /\ cache'[Head(feed).coll] =
                         ApplyChange(cache[Head(feed).coll], Head(feed))
                    /\ \E i \in 1..Len(evals') :
                         i > Len(evals) /\ evals'[i].key = "s2" ]_vars
  /\ (HungPending /\ feed # <<>>) ~> (HungPending /\ feed = <<>>)
  /\ (HungPending /\ OtherPending) ~> (HungPending /\ ~OtherPending)

\* s1 is still being evaluated while two events were handled, the second
\* mutating the cache, and s2 has published the list of the mutated cache
C16_Witness ==
  /\ HungPending
  /\ ~OtherPending
  /\ feed = <<>>
  /\ "a" \in DOMAIN cache
  /\ Len(cache["a"]) = 2
  /\ StreamTopic("s2") \in DOMAIN published
  /\ published[StreamTopic("s2")].docs = cache["a"]
  /\ StreamTopic("s1") \notin DOMAIN published
  /\ Len(emitted) = 6


(***************************************************************************)
(* C17: an event of collection C reaches the change handlers of a change   *)
(* stream if and only if (the watch list init was given is empty or holds  *)
(* C) and the ignore list init was given does not hold C.                  *)
(***************************************************************************)
ExpectedToPass(watch, ignore, coll) ==
  /\ (watch = <<>> \/ coll \in SeqToSet(watch))
  /\ coll \notin SeqToSet(ignore)

C17_WatchIgnore ==
  last.op = "event"
  => \A i \in 1..Len(changeStreams) :
       last.passed[i] <=> ExpectedToPass(changeStreams[i].watch,
                                         changeStreams[i].ignore, last.coll)


(***************************************************************************)
(* C18: notifyListeners(topic, payload) invokes every callback registered  *)
(* for the topic, once per registration and in registration order, and no  *)
(* callback of another topic; with no registration it invokes nothing.     *)
(***************************************************************************)
C18_NotifyInvokesRegistered ==
  last.op = "notifyListeners"
  => /\ notified = Pairs(last.e, last.registered)
     /\ ~escaped

(***************************************************************************)
(* C19: removeListener(topic, cb) removes cb from the callbacks of the     *)
(* topic and keeps the others in their order; removeListener(topic) leaves *)
(* the topic without callbacks; both leave every other topic as it was and *)
(* both end without error for every topic, also one never listened to.     *)
(***************************************************************************)
C19_RemoveListener ==
  last.op = "removeListener"
  => /\ last.error = NoError
     /\ last.has = IF Truthy(last.cb)
                   THEN SelectSeq(last.had, LAMBDA c : c # last.cb)
                   ELSE <<>>
     /\ last.othersKept


(***************************************************************************)
(* C20: one change event applied to a populated cache: insert prepends the *)
(* new document and keeps the prior entries in order; update and replace   *)
(* put the new full document in the place of the entry with the event's id *)
(* and change nothing when no entry has it; delete removes the entry with  *)
(* that id and changes nothing when it is absent; every other operation    *)
(* type leaves the cache as it was.                                        *)
(***************************************************************************)
ExpectedCache(docs, ev) ==
  CASE ev.operationType = "insert" -> <<ev.fullDocument>> \o docs
    [] ev.operationType \in {"update", "replace"} ->
         [i \in 1..Len(docs) |->
            IF docs[i].id = ev.id THEN ev.fullDocument ELSE docs[i]]
    [] ev.operationType = "delete" -> SelectSeq(docs, LAMBDA d : d.id # ev.id)
    [] OTHER -> docs

C20_ApplyOneEvent ==
  last.op = "apply" => cache[last.ev.coll] = ExpectedCache(last.before, last.ev)


(***************************************************************************)
(* C21: addListStream and removeListStream never change a cache and never  *)
(* start a fetch against the store; removeListStream(id) takes the entry   *)
(* id out of the registry and leaves every other entry as it was, changes  *)
(* nothing when id is not registered, and a second call with the same id   *)
(* would change nothing more.                                              *)
(***************************************************************************)
C21_RegistryCallsFrame ==
  [][last' # last =>
       /\ last'.op \in {"addListStream", "removeListStream"}
       /\ cache' = cache /\ fetches' = fetches /\ evals' = evals
       /\ published' = published
       /\ last'.op = "removeListStream" =>
            /\ DOMAIN streams' = DOMAIN streams \ {last'.streamId}
            /\ \A k \in DOMAIN streams' : streams'[k] = streams[k]
            /\ last'.streamId \notin DOMAIN streams => streams' = streams
            /\ RemoveListStreamResult(streams', last'.streamId) = streams']_vars

\* s2 was removed while s1 stays registered, the cache is populated and a
\* recompute is in flight
C21_Witness ==
  /\ last.op = "removeListStream"
  /\ last.streamId = "s2"
  /\ "s2" \in removed
  /\ "s1" \in DOMAIN streams
  /\ "a" \in DOMAIN cache
  /\ cache["a"] # <<>>
  /\ evals # <<>>


(***************************************************************************)
(* C22: an update, replace or delete event applied a second time to a      *)
(* populated cache leaves the cache as the first application left it.      *)
(***************************************************************************)
C22_ReplayIsIdempotent ==
  (last.op = "replay" /\ last.ev.operationType \in {"update", "replace", "delete"})
  => cache[last.ev.coll] = last.before

\* an update that changed the cache was replayed
C22_Witness ==
  /\ last.op = "replay"
  /\ last.ev.operationType = "update"
  /\ last.first # last.before


(***************************************************************************)
(* C23: collections are independent.  A step changes the cache of a        *)
(* collection only when it handles an event of that collection or resumes  *)
(* its fetch; the evaluations a step starts, and the lists published, are  *)
(* those of streams bound to the collection of the event; and while an     *)
(* evaluation of collection b is pending for ever, every event, fetch and  *)
(* evaluation of collection a is eventually completed.                     *)
(***************************************************************************)
CacheOf(c) == IF c \in DOMAIN cache THEN <<cache[c]>> ELSE <<>>

\* the step hands over an event of collection c or resumes a fetch of c
Handles(c) ==
  \/ feed # <<>> /\ feed' = Tail(feed) /\ Head(feed).coll = c
  \/ \E i \in 1..Len(fetches) : fetches' = RemoveAt(fetches, i) /\ fetches[i].coll = c

PendingOf(c) ==
  \/ \E i \in 1..Len(feed) : feed[i].coll = c
  \/ \E i \in 1..Len(fetches) : fetches[i].coll = c
  \/ \E i \in 1..Len(evals) : evals[i].coll = c

HungOf(c) ==
  \E i \in 1..Len(evals) : evals[i].coll = c /\ ~Settled(evals[i].results)

C23_CollectionsIndependent ==
  /\ [][\A c \in TwoColls :
          /\ CacheOf(c)' # CacheOf(c) => Handles(c)
          /\ Handles(c) =>
               \A i \in 1..Len(evals') :
                 i > Len(evals) => /\ evals'[i].coll = c
                                   /\ streams[evals'[i].key].collection = c
          /\ \A i \in 1..Len(evals) :
               (evals' = RemoveAt(evals, i) /\ evals[i].coll = c)
               => /\ streams[evals[i].key].collection = c
                  /\ published'[StreamTopic(evals[i].key)].docs = evals[i].docs
                  /\ SeqToSet(published'[StreamTopic(evals[i].key)].list)
                       \subseteq SeqToSet(cache[c])]_vars
  /\ (HungOf("b") /\ PendingOf("a")) ~> (HungOf("b") /\ ~PendingOf("a"))

\* the evaluation of sb hangs while collection a, written to as well, has
\* its cache, nothing pending and its list published
C23_Witness ==
  /\ HungOf("b")
  /\ ~PendingOf("a")
  /\ "a" \in DOMAIN cache
  /\ cache["a"] # <<>>
  /\ StreamTopic("sa") \in DOMAIN published
  /\ published[StreamTopic("sa")].list = cache["a"]
  /\ StreamTopic("sb") \notin DOMAIN published


(***************************************************************************)
(* C24: the lists of a stream are published in the order of the change     *)
(* events that caused them: a recompute is not resumed while a recompute   *)
(* of the same stream started by an earlier event is still pending, so     *)
(* once the feed is empty and no fetch or evaluation is pending, the last  *)
(* list published on db:stream:{id} is the final cache of the stream's     *)
(* collection filtered by the stream's filter.                             *)
(***************************************************************************)
FilteredBy(f, docs) == SelectSeq(docs, LAMBDA d : FilterCall(f, d) = "true")

Settling == feed = <<>> /\ fetches = <<>> /\ evals = <<>>

C24_PublishesInOrder ==
  /\ [][\A i \in 1..Len(evals) :
          (evals' = RemoveAt(evals, i) /\ evals[i].kind = "recompute")
          => \A j \in 1..(i - 1) :
               ~(evals[j].kind = "recompute" /\ evals[j].key = evals[i].key)]_vars
  /\ [](Settling =>
          \A k \in DOMAIN streams :
            (StreamTopic(k) \in DOMAIN published /\ streams[k].collection \in DOMAIN cache)
            => published[StreamTopic(k)].list
                 = FilteredBy(streams[k].filter, cache[streams[k].collection]))


(***************************************************************************)
(* C25: a recompute that publishes on db:stream:{id} does so only while    *)
(* the stream id is registered, and with the results of the filter the     *)
(* registry holds for id at that moment: nothing is published for a        *)
(* removed stream, and nothing computed with a replaced filter.            *)
(***************************************************************************)
C25_NoPublishAfterRemove ==
  [][\A i \in 1..Len(evals) :
       (evals' = RemoveAt(evals, i) /\ evals[i].kind = "recompute")
       => /\ evals[i].key \in DOMAIN streams
          /\ evals[i].results = MapFilter(streams[evals[i].key].filter, evals[i].docs)]_vars


(***************************************************************************)
(* C26: with every event of the feed delivered once and ids unique in the  *)
(* store, no cache holds two entries with the same document id, however    *)
(* the snapshot fetches interleave with the insert events.                 *)
(***************************************************************************)
C26_NoDuplicateIds ==
  \A c \in DOMAIN cache :
    \A i, j \in 1..Len(cache[c]) : cache[c][i].id = cache[c][j].id => i = j


(***************************************************************************)
(* C27: once the connection has opened and the open handler has ended,     *)
(* every change of the database is published on db:change, whatever the    *)
(* stream registry held when the connection opened.                        *)
(***************************************************************************)
C27_ChangesPublished == last.op = "change" => last.emits >= 1


(***************************************************************************)
(* C28: a callback that throws while it is notified does not cut the       *)
(* delivery of the change event short: every topic of the event is emitted *)
(* and every callback registered for each of them is invoked, those after  *)
(* the throwing one included, and no exception leaves the handler.         *)
(***************************************************************************)
RECURSIVE Deliveries(_, _)
Deliveries(reg, events) ==
  IF events = <<>> THEN <<>>
  ELSE Pairs(Head(events), CallbacksOf(reg, Head(events)))
       \o Deliveries(reg, Tail(events))

C28_ThrowingListenerIsolated ==
  [][(listeners' = listeners
      /\ <<change, emitted, notified, escaped>>' # <<change, emitted, notified, escaped>>)
     => /\ emitted' = Topics(change')
        /\ notified' = Deliveries(listeners, Topics(change'))
        /\ ~escaped']_vars


(***************************************************************************)
(* C29: once init was called with valid options, its safeListStream option *)
(* decides every later add of an id that is registered: with false neither *)
(* addListStream nor the auto-provisioning fails as a duplicate, with true  *)
(* the add fails; before or after the connect resolves, and if it fails.   *)
(***************************************************************************)
C29_SafeModeGoverns ==
  [][opts # NoOptions =>
       /\ (last'.op = "addListStream" /\ last' # last /\ last'.existed
             /\ last'.streamId # "" /\ last'.collection # "")
          => (last'.error = AlreadyRegistered <=> opts.safeListStream)
       /\ (last'.op = "provision" /\ last' # last /\ ~opts.safeListStream)
          => last'.error = NoError]_vars


(***************************************************************************)
(* C30: an init call that fails its check of dbUri or server leaves the    *)
(* engine as it was: the transport of the previous init stays open and     *)
(* keeps its connections.                                                  *)
(***************************************************************************)
C30_FailedInitChangesNothing ==
  [][(inits' # inits /\ last'.op = "init" /\ last'.error # NoError)
     => /\ io' = io
        /\ sockets' = sockets
        /\ gate' = gate
        /\ opts' = opts
        /\ openHandlers' = openHandlers
        /\ changeStreams' = changeStreams]_vars


(***************************************************************************)
(* C31: the answer to a snapshot request goes to the socket that asked: a  *)
(* socket is sent a payload on db:stream[register][R] only if it has sent  *)
(* a db:stream[register] request with the correlation id R.                *)
(***************************************************************************)
C31_SnapshotOnlyToRequester ==
  \A s \in sockets : \A r \in RegisterIds :
    RegisterTopic(r) \in s.inbox => r \in s.sent

=============================================================================
